---- MODULE Spec2Model ----
(***************************************************************************)
(* Model of landsat_utils: the single-band radiometric conversions of      *)
(* radiance.py, reflectance.py, brightness.py and toar.py (each one a      *)
(* sequence of GDAL calls around an elementwise numpy formula), and the    *)
(* pure function au.earth_sun_dist.                                        *)
(*                                                                         *)
(* Numbers.  A float is modelled as an exact fraction <<n, d>> in lowest   *)
(* terms with d > 0, together with the three IEEE specials                 *)
(*     <<1, 0>> = +inf      <<-1, 0>> = -inf      <<0, 0>> = nan.          *)
(* Rounding to 53 (float64) or 24 (float32) bits is not modelled: the      *)
(* inputs are small numbers whose results both formats hold to well below  *)
(* the differences the properties distinguish.  Signed zeros are not       *)
(* modelled.                                                               *)
(***************************************************************************)
EXTENDS Integers, Sequences, FiniteSets, TLC

VARIABLES
    fs,         \* the file system: path -> raster file (DOMAIN fs = os.path.exists)
    pc,         \* position of the conversion call
    fn,         \* the conversion being called
    args,       \* its arguments (input_scene, output_scene, parameters)
    src_ds,     \* local: source dataset handle, or None
    src_band,   \* local: source band handle, or None
    no_data,    \* local: value of src_band.GetNoDataValue()
    src_ar,     \* local: array read from the source band
    trg_ds,     \* local: target dataset handle (with its unflushed state), or None
    trg_band,   \* local: target band handle, or None
    trg_ar,     \* local: computed array (trg_ar / bri_ar)
    err,        \* the exception the call raised, or "NoError"
    date,       \* earth_sun_dist: the date argument
    formula,    \* earth_sun_dist: the formula argument
    au_pc,      \* earth_sun_dist: "call", "returned" or "raised"
    au_ret      \* earth_sun_dist: value returned or exception raised

conv_vars == <<fs, pc, fn, args, src_ds, src_band, no_data, src_ar,
               trg_ds, trg_band, trg_ar, err>>
au_vars == <<date, formula, au_pc, au_ret>>
vars == <<fs, pc, fn, args, src_ds, src_band, no_data, src_ar,
          trg_ds, trg_band, trg_ar, err, date, formula, au_pc, au_ret>>

\* Python's None, for a local that holds a float, an array or a handle.
None == <<>>

-----------------------------------------------------------------------------
(* Float arithmetic                                                        *)

Abs(x) == IF x < 0 THEN -x ELSE x

Sign(x) == IF x < 0 THEN -1 ELSE IF x > 0 THEN 1 ELSE 0

RECURSIVE GCD(_, _)
GCD(a, b) == IF b = 0 THEN a ELSE GCD(b, a % b)

\* The fraction n/d in the representation above.
Norm(n, d) ==
    IF d = 0 THEN <<Sign(n), 0>>
    ELSE LET g == GCD(Abs(n), Abs(d))
             s == Sign(d)
         IN  <<(s * n) \div g, (s * d) \div g>>

F(n) == <<n, 1>>
Frac(n, d) == Norm(n, d)

Inf == <<1, 0>>
NegInf == <<-1, 0>>
NaN == <<0, 0>>

IsNaN(x) == x = NaN
IsZero(x) == x[1] = 0 /\ x[2] # 0
IsFinite(x) == x[2] # 0

\* IEEE comparison: nan equals nothing, itself included.
EqF(x, y) == x = y /\ ~IsNaN(x)

FAdd(x, y) ==
    IF x[2] = 0 /\ y[2] = 0
    THEN (IF x = y THEN x ELSE NaN)
    ELSE Norm(x[1] * y[2] + y[1] * x[2], x[2] * y[2])

FNeg(x) == <<-x[1], x[2]>>

FSub(x, y) == FAdd(x, FNeg(y))

FMul(x, y) == Norm(x[1] * y[1], x[2] * y[2])

\* 1/x as numpy computes it: 1/0 = inf, 1/inf = 0, 1/nan = nan.
Recip(x) ==
    IF IsNaN(x) THEN NaN
    ELSE IF x[2] = 0 THEN <<0, 1>>
    ELSE IF x[1] = 0 THEN Inf
    ELSE Norm(x[2], x[1])

\* numpy true_divide: division by zero gives inf or nan (and a warning), never
\* an exception.
NpDiv(x, y) == FMul(x, Recip(y))

\* Mutant of PyDiv: the division done as numpy does it, without the raise.
PyDiv_numpy(x, y) == [raised |-> FALSE, value |-> NpDiv(x, y)]

\* Python's float.__truediv__: a zero divisor raises.
PyDiv(x, y) ==
    IF IsZero(y) THEN [raised |-> TRUE, value |-> NaN]
    ELSE [raised |-> FALSE, value |-> NpDiv(x, y)]

\* bool(x) of a Python number.
Truthy(x) == ~IsZero(x)

-----------------------------------------------------------------------------
(* numpy functions                                                         *)

\* np.pi, to seven digits.
np_pi == Frac(355, 113)

\* np.sin(np.radians(deg)) at the whole-degree angles where the sine is
\* rational.  The float result differs from the value here by less than 1e-15.
sin_radians(deg) ==
    LET a == (deg[1] \div deg[2]) % 360
    IN  CASE a \in {0, 180} -> F(0)
          [] a \in {30, 150} -> Frac(1, 2)
          [] a = 90 -> F(1)
          [] a \in {210, 330} -> Frac(-1, 2)
          [] a = 270 -> F(-1)

\* np.cos(np.radians(deg)), likewise (np.cos(np.radians(90)) is 6.1e-17 as a
\* float, 0 here).
cos_radians(deg) ==
    LET a == (deg[1] \div deg[2]) % 360
    IN  CASE a = 0 -> F(1)
          [] a \in {60, 300} -> Frac(1, 2)
          [] a \in {90, 270} -> F(0)
          [] a \in {120, 240} -> Frac(-1, 2)
          [] a = 180 -> F(-1)

\* 10^4 * ln(n/d) for n >= d > 0, by halving into [1, 2] and the series
\* ln q = 2 (z + z^3/3 + z^5/5 + z^7/7), z = (q - 1)/(q + 1).
RECURSIVE LnFix(_, _)
LnFix(n, d) ==
    IF n > 2 * d THEN 6931 + LnFix(n, 2 * d)
    ELSE LET z == ((n - d) * 10000) \div (n + d)
             z2 == (z * z) \div 10000
             z3 == (z * z2) \div 10000
             z5 == (z3 * z2) \div 10000
             z7 == (z5 * z2) \div 10000
         IN  2 * (z + (z3 \div 3) + (z5 \div 5) + (z7 \div 7))

\* np.log: log(0) = -inf, log(x < 0) = nan, log(inf) = inf (warnings, no
\* exception); otherwise the logarithm to three decimals.
np_log(x) ==
    IF IsNaN(x) \/ x[1] < 0 THEN NaN
    ELSE IF x = Inf THEN Inf
    ELSE IF x[1] = 0 THEN NegInf
    ELSE IF x[1] >= x[2] THEN Frac(LnFix(x[1], x[2]), 10000)
    ELSE Frac(-LnFix(x[2], x[1]), 10000)

\* trg_ar[src_ar == no_data] = no_data.  With no_data = None the comparison
\* is False everywhere.
MaskNoData(ar, src, nd) ==
    [i \in DOMAIN ar |-> [j \in DOMAIN ar[i] |->
        IF nd # None /\ EqF(src[i][j], nd) THEN nd ELSE ar[i][j]]]

-----------------------------------------------------------------------------
(* The conversion formulas (the "convert to ..." lines of each function).  *)
(* A numpy expression over an array is the array of its values, cell by    *)
(* cell.                                                                   *)

\* gain * x + bias
linear(x, gain, bias) == FAdd(FMul(gain, x), bias)

\* Mutant of radiance_gainbias_trg_ar: gain * (src_ar + bias).
radiance_gainbias_trg_ar_paren(src, nd, gain, bias) ==
    MaskNoData(
        [i \in DOMAIN src |-> [j \in DOMAIN src[i] |->
            FMul(gain, FAdd(src[i][j], bias))]],
        src, nd)

\* radiance.gainbias: trg_ar = gain * src_ar + bias, then the nodata mask.
radiance_gainbias_trg_ar(src, nd, gain, bias) ==
    MaskNoData(
        [i \in DOMAIN src |-> [j \in DOMAIN src[i] |-> linear(src[i][j], gain, bias)]],
        src, nd)

\* radiance.scaling: the slope is a division of Python floats, which raises
\* ZeroDivisionError on a zero divisor; the rest is numpy arithmetic.
scaling_slope(lmin, lmax, qcalmin, qcalmax) ==
    PyDiv(FSub(lmax, lmin), FSub(qcalmax, qcalmin))

\* Mutant of scaling_trg_ar: (src_ar - qcalmax) for (src_ar - qcalmin).
scaling_trg_ar_qcalmax(src, nd, lmin, lmax, qcalmin, qcalmax) ==
    LET slope == scaling_slope(lmin, lmax, qcalmin, qcalmax).value
    IN  MaskNoData(
            [i \in DOMAIN src |-> [j \in DOMAIN src[i] |->
                FAdd(FMul(slope, FSub(src[i][j], qcalmax)), lmin)]],
            src, nd)

scaling_trg_ar(src, nd, lmin, lmax, qcalmin, qcalmax) ==
    LET slope == scaling_slope(lmin, lmax, qcalmin, qcalmax).value
    IN  MaskNoData(
            [i \in DOMAIN src |-> [j \in DOMAIN src[i] |->
                FAdd(FMul(slope, FSub(src[i][j], qcalmin)), lmin)]],
            src, nd)

\* reflectance.gainbias: the division by the sine is unconditional.
reflectance_gainbias_trg_ar(src, nd, gain, bias, sun_elev) ==
    MaskNoData(
        [i \in DOMAIN src |-> [j \in DOMAIN src[i] |->
            NpDiv(linear(src[i][j], gain, bias), sin_radians(sun_elev))]],
        src, nd)

\* Mutant of ref_elev_corrected: the division done whatever sun_elev is.
ref_elev_always(sun_elev) == TRUE

\* reflectance.ref: "if sun_elev:" guards the division by the sine.
ref_elev_corrected(sun_elev) == Truthy(sun_elev)

ref_trg_ar(src, nd, earth_sun_dist, sun_elev, esun) ==
    LET solar_zenith == FSub(F(90), sun_elev)
        first(x) ==
            FMul(NpDiv(FMul(FMul(np_pi, x), FMul(earth_sun_dist, earth_sun_dist)),
                       esun),
                 cos_radians(solar_zenith))
    IN  MaskNoData(
            [i \in DOMAIN src |-> [j \in DOMAIN src[i] |->
                IF ref_elev_corrected(sun_elev)
                THEN NpDiv(first(src[i][j]), sin_radians(sun_elev))
                ELSE first(src[i][j])]],
            src, nd)

\* k2 / np.log((k1 / x) + 1)
brightness(x, k1, k2) == NpDiv(k2, np_log(FAdd(NpDiv(k1, x), F(1))))

\* brightness.toa_rad_to_toa_bright
toa_rad_to_toa_bright_trg_ar(src, nd, k1, k2) ==
    MaskNoData(
        [i \in DOMAIN src |-> [j \in DOMAIN src[i] |-> brightness(src[i][j], k1, k2)]],
        src, nd)

\* Mutant of dn_to_toa_bright_rad_ar: gain and bias exchanged.
dn_to_toa_bright_rad_ar_swapped(src, gain, bias) ==
    [i \in DOMAIN src |-> [j \in DOMAIN src[i] |-> linear(src[i][j], bias, gain)]]

\* brightness.dn_to_toa_bright: rad_ar, then bri_ar, masked by src_ar.
dn_to_toa_bright_rad_ar(src, gain, bias) ==
    [i \in DOMAIN src |-> [j \in DOMAIN src[i] |-> linear(src[i][j], gain, bias)]]

\* Mutant of dn_to_toa_bright_mask: the mask taken from rad_ar.
dn_to_toa_bright_mask_rad(bri_ar, src, rad_ar, nd) == MaskNoData(bri_ar, rad_ar, nd)

dn_to_toa_bright_mask(bri_ar, src, rad_ar, nd) == MaskNoData(bri_ar, src, nd)

dn_to_toa_bright_bri_ar(src, nd, gain, bias, k1, k2) ==
    LET rad_ar == dn_to_toa_bright_rad_ar(src, gain, bias)
    IN  dn_to_toa_bright_mask(
            [i \in DOMAIN src |-> [j \in DOMAIN src[i] |->
                brightness(rad_ar[i][j], k1, k2)]],
            src, rad_ar, nd)

\* toar.toa_radiance
toa_radiance_trg_ar(src, nd, gain, bias) ==
    MaskNoData(
        [i \in DOMAIN src |-> [j \in DOMAIN src[i] |-> linear(src[i][j], gain, bias)]],
        src, nd)

\* toar.toa_reflectance
toa_reflectance_trg_ar(src, nd, gain, bias) ==
    MaskNoData(
        [i \in DOMAIN src |-> [j \in DOMAIN src[i] |-> linear(src[i][j], gain, bias)]],
        src, nd)

\* toar.toa_brightness
toa_brightness_trg_ar(src, nd, k1, k2) ==
    MaskNoData(
        [i \in DOMAIN src |-> [j \in DOMAIN src[i] |-> brightness(src[i][j], k1, k2)]],
        src, nd)

\* Whether the formula of conversion f raises with arguments a.
FormulaRaises(f, a) ==
    /\ f = "radiance.scaling"
    /\ scaling_slope(a.lmin, a.lmax, a.qcalmin, a.qcalmax).raised

\* The array conversion f computes from src_ar = src and no_data = nd.
Formula(f, a, src, nd) ==
    CASE f = "radiance.gainbias" -> radiance_gainbias_trg_ar(src, nd, a.gain, a.bias)
      [] f = "radiance.scaling" ->
            scaling_trg_ar(src, nd, a.lmin, a.lmax, a.qcalmin, a.qcalmax)
      [] f = "reflectance.gainbias" ->
            reflectance_gainbias_trg_ar(src, nd, a.gain, a.bias, a.sun_elev)
      [] f = "reflectance.ref" ->
            ref_trg_ar(src, nd, a.earth_sun_dist, a.sun_elev, a.esun)
      [] f = "brightness.toa_rad_to_toa_bright" ->
            toa_rad_to_toa_bright_trg_ar(src, nd, a.k1, a.k2)
      [] f = "brightness.dn_to_toa_bright" ->
            dn_to_toa_bright_bri_ar(src, nd, a.gain, a.bias, a.k1, a.k2)
      [] f = "toar.toa_radiance" -> toa_radiance_trg_ar(src, nd, a.gain, a.bias)
      [] f = "toar.toa_reflectance" -> toa_reflectance_trg_ar(src, nd, a.gain, a.bias)
      [] f = "toar.toa_brightness" -> toa_brightness_trg_ar(src, nd, a.k1, a.k2)

-----------------------------------------------------------------------------
(* Rasters and the arguments the calls are made with                       *)

MaxCols == 1

Paths == {"a.tif", "b.tif"}

SrcValues == {F(-1), F(0), F(10)}

\* The source band of the end-to-end scenario: [[10, 20], [-1, 30]].
ScenarioAr == << <<F(10), F(20)>>, <<F(-1), F(30)>> >>

SrcArrays ==
    {ScenarioAr} \cup
    UNION {{<<row>> : row \in [1..c -> SrcValues]} : c \in 1..MaxCols}

NoDataValues == {None, F(-1), F(0)}

\* A single-band raster file.
Raster(ar, nd, gt, proj, dtype) ==
    [ar |-> ar, nodata |-> nd, geotransform |-> gt, projection |-> proj,
     dtype |-> dtype]

RasterXSize(file) == Len(file.ar[1])
RasterYSize(file) == Len(file.ar)

\* What drv.Create(path, xsize, ysize, 1, gdal.GDT_Float32) puts on disk: a
\* zero-filled Float32 band with no nodata value and default georeferencing.
Created(xsize, ysize) ==
    Raster([i \in 1..ysize |-> [j \in 1..xsize |-> F(0)]], None,
           "default", "", "Float32")

GainBias == {<<Frac(1, 10), F(5)>>, <<F(1), F(0)>>}
LRange == {<<F(5), F(15)>>}
QCal == {<<F(0), F(10)>>, <<F(0), F(30)>>, <<F(10), F(30)>>, <<F(10), F(10)>>}
SunElev == {F(0), F(30), F(90)}
EarthSunDist == {Frac(11, 10)}
ESun == {F(2)}
K1K2 == {<<F(607), F(1261)>>, <<F(2), F(1)>>}

-----------------------------------------------------------------------------
(* A conversion call, statement by statement.  The nine functions share    *)
(* every statement but the formula; line numbers are radiance.gainbias's.  *)

NoError == "NoError"

Idle == pc \in {"idle", "returned", "released"}

\* Entering conversion f: arguments bound, locals unbound.  A call starts
\* when no other is running (the module is single-threaded).
Enter(f, a) ==
    /\ fn' = f
    /\ args' = a
    /\ pc' = "exists"
    /\ src_ds' = None /\ src_band' = None /\ no_data' = None /\ src_ar' = None
    /\ trg_ds' = None /\ trg_band' = None /\ trg_ar' = None
    /\ err' = NoError
    /\ UNCHANGED <<fs, date, formula, au_pc, au_ret>>

radiance_gainbias(input_scene, gain, bias, output_scene) ==
    /\ Idle
    /\ Enter("radiance.gainbias",
          [input_scene |-> input_scene, output_scene |-> output_scene,
           gain |-> gain, bias |-> bias])

scaling(input_scene, lmin, lmax, qcalmin, qcalmax, output_scene) ==
    /\ Idle
    /\ Enter("radiance.scaling",
          [input_scene |-> input_scene, output_scene |-> output_scene,
           lmin |-> lmin, lmax |-> lmax, qcalmin |-> qcalmin, qcalmax |-> qcalmax])

reflectance_gainbias(input_scene, gain, bias, sun_elev, output_scene) ==
    /\ Idle
    /\ Enter("reflectance.gainbias",
          [input_scene |-> input_scene, output_scene |-> output_scene,
           gain |-> gain, bias |-> bias, sun_elev |-> sun_elev])

ref(input_scene, earth_sun_dist, sun_elev, esun, output_scene) ==
    /\ Idle
    /\ Enter("reflectance.ref",
          [input_scene |-> input_scene, output_scene |-> output_scene,
           earth_sun_dist |-> earth_sun_dist, sun_elev |-> sun_elev, esun |-> esun])

toa_rad_to_toa_bright(input_scene, k1, k2, output_scene) ==
    /\ Idle
    /\ Enter("brightness.toa_rad_to_toa_bright",
          [input_scene |-> input_scene, output_scene |-> output_scene,
           k1 |-> k1, k2 |-> k2])

dn_to_toa_bright(input_scene, gain, bias, k1, k2, output_scene) ==
    /\ Idle
    /\ Enter("brightness.dn_to_toa_bright",
          [input_scene |-> input_scene, output_scene |-> output_scene,
           gain |-> gain, bias |-> bias, k1 |-> k1, k2 |-> k2])

toa_radiance(input_scene, gain, bias, output_scene) ==
    /\ Idle
    /\ Enter("toar.toa_radiance",
          [input_scene |-> input_scene, output_scene |-> output_scene,
           gain |-> gain, bias |-> bias])

toa_reflectance(input_scene, gain, bias, output_scene) ==
    /\ Idle
    /\ Enter("toar.toa_reflectance",
          [input_scene |-> input_scene, output_scene |-> output_scene,
           gain |-> gain, bias |-> bias])

toa_brightness(input_scene, k1, k2, output_scene) ==
    /\ Idle
    /\ Enter("toar.toa_brightness",
          [input_scene |-> input_scene, output_scene |-> output_scene,
           k1 |-> k1, k2 |-> k2])

\* os.path.exists(path)
exists(files, path) == path \in DOMAIN files

\* The statement at pc raises e: the exception leaves the function with the
\* frame's locals as they are.
Raise(e) ==
    /\ pc' = "raised"
    /\ err' = e

\* Mutant of output_exists: the check made on the input path.
output_exists_input == exists(fs, args.input_scene)

\* os.path.exists(output_scene)
output_exists == exists(fs, args.output_scene)

\* if os.path.exists(output_scene): raise ValueError(...)
CheckExists ==
    /\ pc = "exists"
    /\ IF output_exists
       THEN Raise("ValueError")
       ELSE pc' = "open" /\ err' = err
    /\ UNCHANGED <<fs, fn, args, src_ds, src_band, no_data, src_ar,
                   trg_ds, trg_band, trg_ar, au_vars>>

\* src_ds = gdal.Open(input_scene); src_band = src_ds.GetRasterBand(1).
\* A file gdal cannot open gives None (and AttributeError at the next
\* statement) or, with gdal.UseExceptions(), RuntimeError.
OpenSource ==
    /\ pc = "open"
    /\ IF exists(fs, args.input_scene)
       THEN /\ src_ds' = <<"Dataset", args.input_scene>>
            /\ src_band' = <<"Band", args.input_scene>>
            /\ pc' = "nodata" /\ err' = err
       ELSE /\ \E e \in {"AttributeError", "RuntimeError"} : Raise(e)
            /\ UNCHANGED <<src_ds, src_band>>
    /\ UNCHANGED <<fs, fn, args, no_data, src_ar, trg_ds, trg_band, trg_ar,
                   au_vars>>

\* no_data = src_band.GetNoDataValue()
GetNoDataValue ==
    /\ pc = "nodata"
    /\ no_data' = fs[src_band[2]].nodata
    /\ pc' = "read"
    /\ UNCHANGED <<fs, fn, args, src_ds, src_band, src_ar, trg_ds, trg_band,
                   trg_ar, err, au_vars>>

\* src_ar = src_band.ReadAsArray()
ReadAsArray ==
    /\ pc = "read"
    /\ src_ar' = fs[src_band[2]].ar
    /\ pc' = "create"
    /\ UNCHANGED <<fs, fn, args, src_ds, src_band, no_data, trg_ds, trg_band,
                   trg_ar, err, au_vars>>

\* trg_ds = drv.Create(output_scene, xsize, ysize, 1, gdal.GDT_Float32): the
\* file is on disk from here on, whatever was at that path is replaced.
Create ==
    /\ pc = "create"
    /\ LET new == Created(RasterXSize(fs[src_ds[2]]), RasterYSize(fs[src_ds[2]]))
       IN  /\ fs' = [p \in DOMAIN fs \cup {args.output_scene} |->
                        IF p = args.output_scene THEN new ELSE fs[p]]
           /\ trg_ds' = <<"Dataset", args.output_scene, new>>
    /\ pc' = "geotransform"
    /\ UNCHANGED <<fn, args, src_ds, src_band, no_data, src_ar, trg_band,
                   trg_ar, err, au_vars>>

\* trg_ds.SetGeoTransform(src_ds.GetGeoTransform())
SetGeoTransform ==
    /\ pc = "geotransform"
    /\ trg_ds' = [trg_ds EXCEPT ![3].geotransform = fs[src_ds[2]].geotransform]
    /\ pc' = "projection"
    /\ UNCHANGED <<fs, fn, args, src_ds, src_band, no_data, src_ar, trg_band,
                   trg_ar, err, au_vars>>

\* trg_ds.SetProjection(src_ds.GetProjection())
SetProjection ==
    /\ pc = "projection"
    /\ trg_ds' = [trg_ds EXCEPT ![3].projection = fs[src_ds[2]].projection]
    /\ pc' = "trgband"
    /\ UNCHANGED <<fs, fn, args, src_ds, src_band, no_data, src_ar, trg_band,
                   trg_ar, err, au_vars>>

\* trg_band = trg_ds.GetRasterBand(1); trg_band.SetNoDataValue(no_data).
\* The binding takes a double: None raises TypeError.
SetNoDataValue ==
    /\ pc = "trgband"
    /\ trg_band' = <<"Band", trg_ds[2]>>
    /\ IF no_data = None
       THEN Raise("TypeError") /\ trg_ds' = trg_ds
       ELSE /\ trg_ds' = [trg_ds EXCEPT ![3].nodata = no_data]
            /\ pc' = "convert" /\ err' = err
    /\ UNCHANGED <<fs, fn, args, src_ds, src_band, no_data, src_ar, trg_ar,
                   au_vars>>

\* The "convert to ..." lines: the formula and the nodata mask.
Convert ==
    /\ pc = "convert"
    /\ IF FormulaRaises(fn, args)
       THEN Raise("ZeroDivisionError") /\ trg_ar' = trg_ar
       ELSE /\ trg_ar' = Formula(fn, args, src_ar, no_data)
            /\ pc' = "write" /\ err' = err
    /\ UNCHANGED <<fs, fn, args, src_ds, src_band, no_data, src_ar, trg_ds,
                   trg_band, au_vars>>

\* trg_band.WriteArray(trg_ar): into the dataset's block cache.
WriteArray ==
    /\ pc = "write"
    /\ trg_ds' = [trg_ds EXCEPT ![3].ar = trg_ar]
    /\ pc' = "flush"
    /\ UNCHANGED <<fs, fn, args, src_ds, src_band, no_data, src_ar, trg_band,
                   trg_ar, err, au_vars>>

\* What is on disk once dataset ds is flushed.
Flushed(files, ds) == [files EXCEPT ![ds[2]] = ds[3]]

\* trg_ds.FlushCache()
FlushCache ==
    /\ pc = "flush"
    /\ fs' = Flushed(fs, trg_ds)
    /\ pc' = "close"
    /\ UNCHANGED <<fn, args, src_ds, src_band, no_data, src_ar, trg_ds,
                   trg_band, trg_ar, err, au_vars>>

\* trg_ds = None; trg_band = None; src_ds = None; src_band = None, and the
\* return: the last reference to each dataset goes, which closes it.
CloseHandles ==
    /\ pc = "close"
    /\ fs' = Flushed(fs, trg_ds)
    /\ trg_ds' = None /\ trg_band' = None /\ src_ds' = None /\ src_band' = None
    /\ no_data' = None /\ src_ar' = None /\ trg_ar' = None
    /\ pc' = "returned"
    /\ UNCHANGED <<fn, args, err, au_vars>>

\* After an exception the traceback keeps the frame, and the frame its
\* locals, until the caller is done with the exception; only then are the
\* datasets closed, the target's pending state written by its destructor.
ReleaseFrame ==
    /\ pc = "raised"
    /\ fs' = IF trg_ds = None THEN fs ELSE Flushed(fs, trg_ds)
    /\ trg_ds' = None /\ trg_band' = None /\ src_ds' = None /\ src_band' = None
    /\ no_data' = None /\ src_ar' = None /\ trg_ar' = None
    /\ pc' = "released"
    /\ UNCHANGED <<fn, args, err, au_vars>>

-----------------------------------------------------------------------------
(* au.earth_sun_dist.  Its trigonometry is computed in fixed point: angles *)
(* in 1e-4 radian, cosines and distances in 1e-4, so a result is within a  *)
(* few 1e-4 of the float the code returns.                                 *)

\* cos x for 0 <= x <= pi/2, x in 1e-4 radian, by its Taylor series.
CosQuadrant(x) ==
    LET x2 == (x * x) \div 10000
        x4 == (x2 * x2) \div 10000
        x6 == (x4 * x2) \div 10000
        x8 == ((x6 \div 100) * x2) \div 100
    IN  10000 - (x2 \div 2) + (x4 \div 24) - (x6 \div 720) + (x8 \div 40320)

\* np.cos, argument in 1e-4 radian, result in 1e-4.
np_cos(x) ==
    LET r == x % 62832
        h == IF r > 31416 THEN 62832 - r ELSE r
    IN  IF h > 15708 THEN -CosQuadrant(31416 - h) ELSE CosQuadrant(h)

\* np.sin
np_sin(x) == np_cos(x - 15708)

\* np.radians, argument in 1e-4 degree (taken modulo 360 degrees), result in
\* 1e-4 radian.
np_radians(deg4) ==
    LET deg3 == (deg4 % 3600000) \div 10
    IN  ((deg3 \div 100) * 17453) \div 1000 + ((deg3 % 100) * 17453) \div 100000

RECURSIVE ISqrtIn(_, _, _)
ISqrtIn(n, lo, hi) ==
    IF lo >= hi THEN lo
    ELSE LET mid == (lo + hi + 1) \div 2
         IN  IF mid * mid <= n THEN ISqrtIn(n, mid, hi) ELSE ISqrtIn(n, lo, mid - 1)

\* floor of the square root, for n < 2^30
ISqrt(n) == ISqrtIn(n, 0, 32767)

IsLeap(year) == (year % 4 = 0 /\ year % 100 # 0) \/ year % 400 = 0

DaysInMonth(year, month) ==
    CASE month \in {1, 3, 5, 7, 8, 10, 12} -> 31
      [] month \in {4, 6, 9, 11} -> 30
      [] month = 2 -> IF IsLeap(year) THEN 29 ELSE 28

RECURSIVE DaysBefore(_, _)
DaysBefore(year, month) ==
    IF month = 1 THEN 0
    ELSE DaysBefore(year, month - 1) + DaysInMonth(year, month - 1)

\* date.timetuple().tm_yday
tm_yday(d) == DaysBefore(d.year, d.month) + d.day

\* Mutant of julian_day: January and February not moved into the previous
\* year.
julian_day_unshifted(d) ==
    LET year == d.year
        month == d.month
        day == d.day
        ut == FAdd(F(d.hour), FAdd(Frac(d.minute, 60), Frac(d.second, 3600)))
        a == year \div 100
        b == 2 - a + (a \div 4)
        whole == ((1461 * (year + 4716)) \div 4) + ((306001 * (month + 1)) \div 10000)
                 + day + b
    IN  FSub(FAdd(F(whole), NpDiv(ut, F(24))), Frac(15245, 10))

\* The Julian Day of the Meeus branch, as a fraction of days.
julian_day(d) ==
    LET year == IF d.month <= 2 THEN d.year - 1 ELSE d.year
        month == IF d.month <= 2 THEN d.month + 12 ELSE d.month
        day == d.day
        ut == FAdd(F(d.hour), FAdd(Frac(d.minute, 60), Frac(d.second, 3600)))
        a == year \div 100
        b == 2 - a + (a \div 4)
        whole == ((1461 * (year + 4716)) \div 4) + ((306001 * (month + 1)) \div 10000)
                 + day + b
    IN  FSub(FAdd(F(whole), NpDiv(ut, F(24))), Frac(15245, 10))

\* Meeus: d = jd - 2451545.0; g = radians(357.529 + 0.98560028 * d)
meeus(d) ==
    LET dd == FSub(julian_day(d), F(2451545))
        whole == dd[1] \div dd[2]
        rest == dd[1] % dd[2]
        deg4 == 3575290 + 9856 * whole + (28 * whole) \div 10000
                + (9856 * rest) \div dd[2]
        g == np_radians(deg4)
    IN  10001 - (1671 * np_cos(g)) \div 100000 - (14 * np_cos(2 * g)) \div 100000

spencer(doy) ==
    LET p == (62832 * (doy - 1)) \div 365
        inner6 == 1000110 + (34221 * np_cos(p)) \div 10000
                  + (1280 * np_sin(p)) \div 10000
                  + (719 * np_cos(2 * p)) \div 10000
                  + (77 * np_sin(2 * p)) \div 10000
    IN  ISqrt((1000000000 \div (inner6 \div 100)) * 1000)

\* np.cos takes the argument 0.9856 * (doy - 4) as radians.
mather(doy) ==
    LET den6 == 1000000 - (16729 * np_cos(9856 * (doy - 4))) \div 10000
    IN  100000000 \div (den6 \div 100)

esa(doy) ==
    LET x == (((62832 * (doy - 4)) \div 360) * 9856) \div 10000
    IN  10000 - (16729 * np_cos(x)) \div 1000000

duffie(doy) ==
    10000 + (330 * np_cos((doy * 62832) \div 365)) \div 10000

Formulas == {"Meeus", "Spencer", "Mather", "ESA", "Duffie"}

\* The whole function: what it raises or returns.
earth_sun_dist_result(d, f) ==
    IF d.type # "datetime" THEN [raised |-> "TypeError", value |-> NaN]
    ELSE LET doy == tm_yday(d)
         IN  CASE f = "Meeus" -> [raised |-> NoError, value |-> Frac(meeus(d), 10000)]
               [] f = "Spencer" -> [raised |-> NoError, value |-> Frac(spencer(doy), 10000)]
               [] f = "Mather" -> [raised |-> NoError, value |-> Frac(mather(doy), 10000)]
               [] f = "ESA" -> [raised |-> NoError, value |-> Frac(esa(doy), 10000)]
               [] f = "Duffie" -> [raised |-> NoError, value |-> Frac(duffie(doy), 10000)]
               [] OTHER -> [raised |-> "ValueError", value |-> NaN]

earth_sun_dist ==
    /\ au_pc = "call"
    /\ LET r == earth_sun_dist_result(date, formula)
       IN  /\ au_ret' = r.value
           /\ au_pc' = IF r.raised = NoError THEN "returned" ELSE r.raised
    /\ UNCHANGED <<date, formula, conv_vars>>

-----------------------------------------------------------------------------
(* Specifications                                                          *)

NumYears == 2

Years == 2000..(1999 + NumYears)

Dates ==
    {[type |-> "datetime", year |-> y, month |-> m, day |-> dy, hour |-> h,
      minute |-> 0, second |-> 0] :
        y \in Years, m \in 1..12, dy \in 1..31, h \in {0, 12}}

ValidDates == {d \in Dates : d.day <= DaysInMonth(d.year, d.month)}

NotADate ==
    [type |-> "str", year |-> 0, month |-> 0, day |-> 0, hour |-> 0,
     minute |-> 0, second |-> 0]

Noon2000 ==
    [type |-> "datetime", year |-> 2000, month |-> 1, day |-> 1, hour |-> 12,
     minute |-> 0, second |-> 0]

NoArgs == [input_scene |-> "", output_scene |-> ""]

\* The calls of the conversions start from a directory that holds one source
\* raster, a.tif.
Init ==
    /\ \E ar \in SrcArrays, nd \in NoDataValues :
          fs = [p \in {"a.tif"} |-> Raster(ar, nd, "utm", "wgs84", "Float32")]
    /\ pc = "idle"
    /\ fn = "" /\ args = NoArgs
    /\ src_ds = None /\ src_band = None /\ no_data = None /\ src_ar = None
    /\ trg_ds = None /\ trg_band = None /\ trg_ar = None
    /\ err = NoError
    /\ date = Noon2000 /\ formula = "Meeus" /\ au_pc = "idle" /\ au_ret = NaN

Next ==
    \/ \E i \in Paths, o \in Paths, gb \in GainBias :
          radiance_gainbias(i, gb[1], gb[2], o)
    \/ \E i \in Paths, o \in Paths, l \in LRange, q \in QCal :
          scaling(i, l[1], l[2], q[1], q[2], o)
    \/ \E i \in Paths, o \in Paths, gb \in GainBias, e \in SunElev :
          reflectance_gainbias(i, gb[1], gb[2], e, o)
    \/ \E i \in Paths, o \in Paths, d \in EarthSunDist, e \in SunElev, u \in ESun :
          ref(i, d, e, u, o)
    \/ \E i \in Paths, o \in Paths, k \in K1K2 :
          toa_rad_to_toa_bright(i, k[1], k[2], o)
    \/ \E i \in Paths, o \in Paths, gb \in GainBias, k \in K1K2 :
          dn_to_toa_bright(i, gb[1], gb[2], k[1], k[2], o)
    \/ \E i \in Paths, o \in Paths, gb \in GainBias : toa_radiance(i, gb[1], gb[2], o)
    \/ \E i \in Paths, o \in Paths, gb \in GainBias : toa_reflectance(i, gb[1], gb[2], o)
    \/ \E i \in Paths, o \in Paths, k \in K1K2 : toa_brightness(i, k[1], k[2], o)
    \/ CheckExists
    \/ OpenSource
    \/ GetNoDataValue
    \/ ReadAsArray
    \/ Create
    \/ SetGeoTransform
    \/ SetProjection
    \/ SetNoDataValue
    \/ Convert
    \/ WriteArray
    \/ FlushCache
    \/ CloseHandles
    \/ ReleaseFrame

Spec == Init /\ [][Next]_vars

\* earth_sun_dist applied to every date of the years modelled, at midnight and
\* at noon, with every formula name and an unknown one, and to a non-date.
InitAU ==
    /\ fs = [p \in {"a.tif"} |-> Raster(ScenarioAr, F(-1), "utm", "wgs84", "Float32")]
    /\ pc = "idle"
    /\ fn = "" /\ args = NoArgs
    /\ src_ds = None /\ src_band = None /\ no_data = None /\ src_ar = None
    /\ trg_ds = None /\ trg_band = None /\ trg_ar = None
    /\ err = NoError
    /\ date \in ValidDates \cup {NotADate}
    /\ formula \in Formulas \cup {"Kepler"}
    /\ au_pc = "call"
    /\ au_ret = NaN

NextAU == earth_sun_dist

SpecAU == InitAU /\ [][NextAU]_vars

\* The Julian Day of the Meeus branch, day after day.  JDNumYears calendar
\* years from 1901 on are walked at each of three times of day: the branch
\* computes jd for the date, then the caller moves to the next calendar day.
JDNumYears == 199

JDLastYear == 1900 + JDNumYears

JDTimes == {<<0, 0>>, <<12, 0>>, <<18, 30>>}

\* The calendar day after d, at the same time of day.
NextDate(d) ==
    IF d.day < DaysInMonth(d.year, d.month) THEN [d EXCEPT !.day = d.day + 1]
    ELSE IF d.month < 12 THEN [d EXCEPT !.month = d.month + 1, !.day = 1]
    ELSE [d EXCEPT !.year = d.year + 1, !.month = 1, !.day = 1]

\* The statements of the Meeus branch up to jd.
meeus_julian_day ==
    /\ au_pc \in {"call", "day"}
    /\ formula = "Meeus"
    /\ au_ret' = julian_day(date)
    /\ au_pc' = "jd"
    /\ UNCHANGED <<date, formula, conv_vars>>

\* The caller takes the next calendar day; au_ret still holds the jd of the
\* day before.
NextDay ==
    /\ au_pc = "jd"
    /\ ~(date.year = JDLastYear /\ date.month = 12 /\ date.day = 31)
    /\ date' = NextDate(date)
    /\ au_pc' = "day"
    /\ UNCHANGED <<formula, au_ret, conv_vars>>

InitJD ==
    /\ fs = [p \in {"a.tif"} |-> Raster(ScenarioAr, F(-1), "utm", "wgs84", "Float32")]
    /\ pc = "idle"
    /\ fn = "" /\ args = NoArgs
    /\ src_ds = None /\ src_band = None /\ no_data = None /\ src_ar = None
    /\ trg_ds = None /\ trg_band = None /\ trg_ar = None
    /\ err = NoError
    /\ \E t \in JDTimes :
          date = [type |-> "datetime", year |-> 1901, month |-> 1, day |-> 1,
                  hour |-> t[1], minute |-> t[2], second |-> 0]
    /\ formula = "Meeus"
    /\ au_pc = "call"
    /\ au_ret = NaN

NextJD == meeus_julian_day \/ NextDay

SpecJD == InitJD /\ [][NextJD]_vars

-----------------------------------------------------------------------------
(* Properties                                                              *)

\* The source raster of the current call and the raster at its output path.
Src == fs[args.input_scene]
Trg == fs[args.output_scene]

\* The cells of an array, as <<row, column>> pairs.
Cells(ar) == {<<i, j>> : i \in DOMAIN ar, j \in DOMAIN ar[1]}

\* x <= y for finite x and y
FLeq(x, y) == x[1] * y[2] <= y[1] * x[2]

IOErrors == {"ValueError", "AttributeError", "RuntimeError", "TypeError"}

\* C1: in a call that completes, every cell whose source value equals the
\* source band's nodata value holds that nodata value in the array written to
\* the target, whatever the conversion and its parameters; for
\* dn_to_toa_bright too, where the intermediate radiance differs from the
\* source.
C1_NoDataPreserved ==
    pc = "returned" =>
        \A c \in Cells(Src.ar) :
            EqF(Src.ar[c[1]][c[2]], Src.nodata) =>
                Trg.ar[c[1]][c[2]] = Src.nodata

\* A completed dn_to_toa_bright whose radiance differs from the source and
\* whose source has a nodata cell.
C1_Witness ==
    /\ pc = "returned"
    /\ fn = "brightness.dn_to_toa_bright"
    /\ args.gain # F(1)
    /\ \E c \in Cells(Src.ar) : EqF(Src.ar[c[1]][c[2]], Src.nodata)

\* C2: a call whose output path exists raises the already-exists error
\* (ValueError) at its first statement, with the source not opened, nothing
\* read or computed and no target created, and neither that step nor the
\* release of the frame changes any file.
C2_ExistingOutputAborts ==
    [][/\ (pc = "exists" /\ args.output_scene \in DOMAIN fs) =>
            /\ pc' = "raised" /\ err' = "ValueError"
            /\ fs' = fs
            /\ src_ds' = None /\ src_band' = None
            /\ no_data' = None /\ src_ar' = None
            /\ trg_ds' = None /\ trg_band' = None /\ trg_ar' = None
       /\ (pc = "raised" /\ err = "ValueError") =>
            (pc' = "released" /\ fs' = fs)]_vars

\* A call that raised ValueError because an earlier call had written b.tif.
C2_Witness ==
    /\ pc = "raised"
    /\ err = "ValueError"
    /\ args.output_scene = "b.tif"
    /\ args.input_scene = "a.tif"

\* C3 (as claimed): a call that completes has created exactly one file, and a
\* call that failed at a step before the final array write (opening the
\* source, setting the target's nodata value, computing the formula) leaves no
\* file at its output path.
C3_OneFileOrNone ==
    /\ pc = "returned" => DOMAIN fs = {"a.tif", args.output_scene}
    /\ (pc \in {"raised", "released"} /\ err \in (IOErrors \cup {"ZeroDivisionError"})
            /\ err # "ValueError")
         => args.output_scene \notin DOMAIN fs

\* C4 (as claimed): when the call hands control back to its caller, by
\* returning or by raising, it holds no source or target handle.
C4_HandlesReleased ==
    pc \in {"returned", "raised"} =>
        /\ src_ds = None /\ src_band = None
        /\ trg_ds = None /\ trg_band = None

\* C5 (as claimed): radiance.scaling with qcalmax = qcalmin raises nothing on
\* account of the division: a call that got past the existence check, the
\* opening of the source and the nodata value does not raise.
C5_ScalingNeverRaises ==
    (fn = "radiance.scaling" /\ args.qcalmax = args.qcalmin
        /\ pc \in {"raised", "released"})
      => err \in IOErrors

\* C5 (amended): radiance.scaling with qcalmax = qcalmin never reaches the
\* array write; once the target's nodata value is set it raises
\* ZeroDivisionError, with no array computed and the target band still as
\* created.
C5_ScalingRaisesZeroDivision ==
    (fn = "radiance.scaling" /\ args.qcalmax = args.qcalmin) =>
        /\ pc \notin {"write", "flush", "close", "returned"}
        /\ (pc = "raised" /\ trg_ds # None /\ trg_ds[3].nodata # None) =>
              /\ err = "ZeroDivisionError"
              /\ trg_ar = None
              /\ trg_ds[3].ar = Created(RasterXSize(Src), RasterYSize(Src)).ar

\* A scaling call stopped by the division.
C5_Witness ==
    /\ fn = "radiance.scaling"
    /\ args.qcalmax = args.qcalmin
    /\ pc = "raised"
    /\ err = "ZeroDivisionError"

\* C6 (as claimed): after radiance.scaling with qcalmax # qcalmin, every cell
\* whose source value is qcalmin holds lmin and every cell whose source value
\* is qcalmax holds lmax.
C6_ScalingEndpointsAllCells ==
    (pc = "returned" /\ fn = "radiance.scaling") =>
        \A c \in Cells(Src.ar) :
            /\ EqF(Src.ar[c[1]][c[2]], args.qcalmin) => Trg.ar[c[1]][c[2]] = args.lmin
            /\ EqF(Src.ar[c[1]][c[2]], args.qcalmax) => Trg.ar[c[1]][c[2]] = args.lmax

\* C6 (amended): the same for the cells whose source value is not the nodata
\* value.
C6_ScalingEndpoints ==
    (pc = "returned" /\ fn = "radiance.scaling") =>
        \A c \in Cells(Src.ar) :
            ~EqF(Src.ar[c[1]][c[2]], Src.nodata) =>
                /\ EqF(Src.ar[c[1]][c[2]], args.qcalmin) =>
                        Trg.ar[c[1]][c[2]] = args.lmin
                /\ EqF(Src.ar[c[1]][c[2]], args.qcalmax) =>
                        Trg.ar[c[1]][c[2]] = args.lmax

\* A completed scaling whose source has a valid cell at qcalmin and another at
\* qcalmax.
C6_Witness ==
    /\ pc = "returned"
    /\ fn = "radiance.scaling"
    /\ \E c \in Cells(Src.ar) :
          /\ EqF(Src.ar[c[1]][c[2]], args.qcalmin)
          /\ ~EqF(Src.ar[c[1]][c[2]], Src.nodata)
    /\ \E c \in Cells(Src.ar) :
          /\ EqF(Src.ar[c[1]][c[2]], args.qcalmax)
          /\ ~EqF(Src.ar[c[1]][c[2]], Src.nodata)

\* C7 (as claimed): whatever the formula and the date, the distance
\* earth_sun_dist returns lies in [0.98, 1.02].
C7_DistanceInRange ==
    au_pc = "returned" =>
        /\ FLeq(Frac(98, 100), au_ret)
        /\ FLeq(au_ret, Frac(102, 100))

\* C7 (supporting): the Meeus, Spencer, Mather and ESA formulas do stay in
\* [0.98, 1.02]; only the Duffie formula leaves it.
C7_OthersInRange ==
    (au_pc = "returned" /\ formula # "Duffie") =>
        /\ FLeq(Frac(98, 100), au_ret)
        /\ FLeq(au_ret, Frac(102, 100))

\* C8: radiance.gainbias and toar.toa_radiance write gain * source + bias in
\* the cells whose source is not nodata and nodata in the others; the scenario
\* [[10, 20], [-1, 30]], nodata -1, gain 0.1, bias 5 gives [[6, 7], [-1, 8]].
C8_GainBiasLinear ==
    (pc = "returned" /\ fn \in {"radiance.gainbias", "toar.toa_radiance"}) =>
        /\ \A c \in Cells(Src.ar) :
              Trg.ar[c[1]][c[2]] =
                  IF EqF(Src.ar[c[1]][c[2]], Src.nodata)
                  THEN Src.nodata
                  ELSE FAdd(FMul(args.gain, Src.ar[c[1]][c[2]]), args.bias)
        /\ (Src.ar = ScenarioAr /\ Src.nodata = F(-1)
                /\ args.gain = Frac(1, 10) /\ args.bias = F(5))
             => Trg.ar = << <<F(6), F(7)>>, <<F(-1), F(8)>> >>

\* radiance.gainbias completed on the scenario.
C8_Witness ==
    /\ pc = "returned"
    /\ fn = "radiance.gainbias"
    /\ Src.ar = ScenarioAr /\ Src.nodata = F(-1)
    /\ args.gain = Frac(1, 10) /\ args.bias = F(5)
    /\ Trg.ar[1][1] = F(6)

\* C9: reflectance.ref with sun_elev = 0 writes, in every cell that is not
\* nodata, (pi * source * earth_sun_dist^2 / esun) * cos(radians(90)), a finite
\* value, undivided; with any other sun_elev it writes that product (with the
\* cosine of 90 - sun_elev) divided by sin(radians(sun_elev)).
C9_RefElevationGuard ==
    (pc = "returned" /\ fn = "reflectance.ref") =>
        \A c \in Cells(Src.ar) :
            LET x == Src.ar[c[1]][c[2]]
                d2 == FMul(args.earth_sun_dist, args.earth_sun_dist)
                product(zenith) ==
                    FMul(NpDiv(FMul(FMul(np_pi, x), d2), args.esun),
                         cos_radians(zenith))
            IN  ~EqF(x, Src.nodata) =>
                    IF args.sun_elev = F(0)
                    THEN /\ Trg.ar[c[1]][c[2]] = product(F(90))
                         /\ IsFinite(Trg.ar[c[1]][c[2]])
                    ELSE Trg.ar[c[1]][c[2]] =
                            NpDiv(product(FSub(F(90), args.sun_elev)),
                                  sin_radians(args.sun_elev))

\* reflectance.ref completed with sun_elev = 0 on a source with a valid,
\* nonzero cell.
C9_Witness ==
    /\ pc = "returned"
    /\ fn = "reflectance.ref"
    /\ args.sun_elev = F(0)
    /\ \E c \in Cells(Src.ar) :
          /\ ~EqF(Src.ar[c[1]][c[2]], Src.nodata)
          /\ ~IsZero(Src.ar[c[1]][c[2]])

\* C10: dn_to_toa_bright with gain = 1 and bias = 0 writes the array that
\* toa_rad_to_toa_bright computes from the same source, nodata value, k1 and
\* k2, and toa_rad_to_toa_bright writes the array dn_to_toa_bright computes
\* with gain = 1 and bias = 0.
C10_BrightnessAgree ==
    /\ (pc = "returned" /\ fn = "brightness.dn_to_toa_bright"
            /\ args.gain = F(1) /\ args.bias = F(0))
         => Trg.ar = toa_rad_to_toa_bright_trg_ar(Src.ar, Src.nodata, args.k1, args.k2)
    /\ (pc = "returned" /\ fn = "brightness.toa_rad_to_toa_bright")
         => Trg.ar = dn_to_toa_bright_bri_ar(Src.ar, Src.nodata, F(1), F(0),
                                            args.k1, args.k2)

\* dn_to_toa_bright completed with gain = 1, bias = 0 on a source with a
\* nodata cell and a valid one.
C10_Witness ==
    /\ pc = "returned"
    /\ fn = "brightness.dn_to_toa_bright"
    /\ args.gain = F(1) /\ args.bias = F(0)
    /\ \E c \in Cells(Src.ar) : EqF(Src.ar[c[1]][c[2]], Src.nodata)
    /\ \E c \in Cells(Src.ar) :
          /\ ~EqF(Src.ar[c[1]][c[2]], Src.nodata)
          /\ IsFinite(Trg.ar[c[1]][c[2]])
          /\ ~IsZero(Trg.ar[c[1]][c[2]])

\* C11: the Julian Day the Meeus branch computes for 2000-01-01 12:00:00 is
\* exactly 2451545, and the Julian Day computed for the day after any calendar
\* day of the years walked, at the same time of day, is the Julian Day of that
\* day plus exactly 1 (month ends, 28/29 February -> 1 March and 31 December
\* -> 1 January included).
C11_JulianDay ==
    /\ []((au_pc = "jd" /\ date = Noon2000) => au_ret = F(2451545))
    /\ [][(au_pc = "day" /\ au_pc' = "jd") => au_ret' = FAdd(au_ret, F(1))]_vars

\* The Julian Day of 2000-03-01 12:00, computed after that of 29 February.
C11_Witness ==
    /\ au_pc = "jd"
    /\ date = [Noon2000 EXCEPT !.month = 3]
    /\ au_ret = F(2451605)

====
